---------------------------- MODULE Spec2Model ----------------------------
(***************************************************************************)
(* Raster ensemble flood-mask pipeline of environmentaltools:              *)
(*   spatiotemporal/raster.py  check_inputs, binary_matrix, main           *)
(*   spatiotemporal/utils.py   save_matrix_to_netcdf                       *)
(*                                                                         *)
(* A call of one of the public functions is a run of the state machine.    *)
(* The configuration dictionary `info` and the file system are read by the *)
(* code key by key and path by path; the model draws the value of a key or *)
(* the state of a path when the code first reads it and keeps it, so that  *)
(* every later read sees the same value.  A Python exception that nothing  *)
(* catches ends the run in pc = "raised" with err naming its class, the    *)
(* function and the source line that raised it.                            *)
(***************************************************************************)
EXTENDS Integers, Sequences, FiniteSets, TLC

VARIABLES
    entry,   \* the function the caller invoked
    pc,      \* control point of the run
    err,     \* the uncaught exception, [type, fn, line]
    info,    \* the configuration dictionary (mutated in place)
    env,     \* what the run has learnt of the file system and of ascii_tiff
    eff,     \* the run's effects: paths tested, files read, dirs made, files written
    loc      \* local variables of the running functions

vars == <<entry, pc, err, info, env, eff, loc>>

-----------------------------------------------------------------------------
(* Bounds of the model *)

MaxSims == 2      \* simulation ids are 1..MaxSims
MaxDates == 2     \* rows of a level series (levels.csv)
MaxIndex == 2     \* length of the index lists
MaxHorizon == 1   \* length of horizon_times
MaxRP == 1        \* length of return_periods
MaxFiles == 2     \* raster files of one simulation
NCells == 2       \* cells of an elevation grid
GridRows == 2     \* rows of the grid band is applied to
GridCols == 2     \* columns of the grid band is applied to
MaxMeshRows == 3  \* rows of points of the grid a mesh is built for
MaxMeshCols == 3  \* columns of points of the grid a mesh is built for
MaxYears == 3     \* rows (year offsets) of a return-period table

Sims == 1..MaxSims

-----------------------------------------------------------------------------
(* Values the configuration and the file system are drawn from *)

\* raster.py:85-90, the literal list the index names are tested against
Whitelist ==
    { "mean-presence-boundary", "maximum-influence-extent",
      "threshold-exceedance-frequency", "permanently-affected-zone",
      "mean-representative-value", "return-period-based-extreme-value",
      "spatial-change-rate", "functional-area-loss",
      "critical-boundary-retreat", "neighborhood",
      "neighborhood-gradient-influence", "environmental-convergence",
      "neighborhood-polarization", "local-persistence", "environmental-risk",
      "directional-influence", "multivariate-neighborhood-synergy",
      "spatiotemporal-coupling", "multivariate-threshold-exceedance",
      "directional-co-evolution", "multivariate-persistence",
      "multivariate-recovery" }

\* index names a caller may put in info["index"]: two of the whitelist and
\* the names binary_matrix dispatches on
IndexNames ==
    { "mean-presence-boundary", "neighborhood", "flooded_area", "flood_RP" }

HorizonVals == {0, 2}
ReturnPeriodVals == {-5, 0, 10}

SeqsUpTo(S, n) == UNION { [1..k -> S] : k \in 0..n }
Range(s) == { s[i] : i \in 1..Len(s) }

\* np.min and np.max of a non-empty set of numbers
MinOf(S) == CHOOSE m \in S : \A n \in S : m <= n
MaxOf(S) == CHOOSE m \in S : \A n \in S : m >= n

\* a dictionary key: not read yet, missing, or holding v
Unread(d) == [st |-> "unread", v |-> d]
Absent(d) == [st |-> "absent", v |-> d]
Set(x) == [st |-> "set", v |-> x]

\* the values a key may turn out to hold when the code first reads it
Reveal(field, options) == IF field.st = "unread" THEN options ELSE {field}

IndexOptions ==
    {Absent(<<>>)}
    \cup { [st |-> "str", v |-> <<n>>] : n \in IndexNames }
    \cup { [st |-> "list", v |-> s] : s \in SeqsUpTo(IndexNames, MaxIndex) }

\* info["project"]["no_sims"] is iterated: the list of simulation ids 1..k
SimLists == { [i \in 1..k |-> i] : k \in 0..MaxSims }

NoError == [type |-> "none", fn |-> "none", line |-> 0]
Error(type, fn, line) == [type |-> type, fn |-> fn, line |-> line]

-----------------------------------------------------------------------------
(* Initial state: the caller has built info and invokes entry *)

Entries ==
    { "main", "binary_matrix", "save_matrix_to_netcdf", "band",
      "calculate_grid_angle_and_create_rotated_mesh", "mask_unit" }

InitInfo(e) ==
    [ index |-> Unread(<<>>),
      input_dtm |-> "unread",
      no_sims |-> Unread(0),
      dir_input_dtm |-> "unread",
      seasons |-> "unread",
      proj_no_sims |-> Unread(<<>>),
      proj_index |-> Unread(<<>>),
      horizon_times |-> Unread(<<>>),
      return_periods |-> Unread(<<>>),
      \* derived keys: check_inputs writes them; a caller of binary_matrix
      \* alone has to supply them
      dtm_filenames |-> IF e = "main" THEN Absent(<<>>) ELSE Unread(<<>>),
      auxiliary_folders |-> IF e = "main" THEN Absent({}) ELSE Unread({}),
      dates |-> IF e = "main" THEN Absent(<<>>) ELSE Unread(<<>>),
      \* keys only binary_matrix reads
      dtm_files |-> "unread",
      refinement |-> Unread(FALSE),
      \* key only the memory warning of the mesh check reads
      grid_size |-> "unread" ]

InitEnv ==
    [ dirs |-> [s \in Sims |-> "untested"],
      levels |-> [s \in Sims |-> [st |-> "unread", rows |-> 0]],
      tiff_returns |-> "unread" ]

InitEff ==
    [ tested |-> {},     \* paths whose existence was tested
      read |-> {},       \* files read by check_inputs
      created |-> {},    \* directories made
      written |-> <<>>,  \* output files written, in order
      loaded |-> 0,      \* rasters binary_matrix has loaded
      log |-> "none" ]   \* level of the last advisory or progress record logged

Unbound == [bound |-> FALSE, v |-> 0]
Bound(x) == [bound |-> TRUE, v |-> x]

\* locals of binary_matrix at its entry
BmLocals ==
    [ da_dem |-> "unbound",      \* what ascii_tiff returned
      coords |-> "unbound",      \* bound by the refinement branch only
      band_ |-> {},              \* the True cells of band's mask, once coords is bound
      bin_mask |-> {},           \* <<sim, date, mask>>: bin_mask[sim][date] = mask
      date_loop |-> TRUE,
      bj |-> 1,                  \* position in info["project"]["no_sims"]
      sim_no |-> 0,
      level |-> Unbound,
      df_levels_per_date |-> "unbound",
      date |-> Unbound,
      file_no |-> 0,
      unit |-> 1,                \* position in return_periods x horizon_times
      failed |-> {},             \* simulations one of whose units raised
      saves |-> [s \in Sims |-> 0] ]   \* calls of save_matrix_to_netcdf

InitLoc ==
    [ sim |-> 1, j |-> 1, k |-> 0, calls |-> 0, bm |-> BmLocals,
      \* arguments and result of a direct call of a function of utils.py
      args |-> <<>>, ret |-> <<>>,
      \* times band and the mesh function have returned to binary_matrix
      band_builds |-> 0, mesh_builds |-> 0 ]

EntryPc(e) ==
    CASE e = "main" -> "ci_index"
      [] e = "binary_matrix" -> "bm_start"
      [] e = "save_matrix_to_netcdf" -> "save"
      [] OTHER -> e

Init ==
    /\ entry \in Entries
    /\ pc = EntryPc(entry)
    /\ err = NoError
    /\ info = InitInfo(entry)
    /\ env = InitEnv
    /\ eff = InitEff
    /\ loc = InitLoc

-----------------------------------------------------------------------------
(* Exceptions.  No function of raster.py or utils.py has a handler except  *)
(* the one around read_csv in check_inputs, which re-raises; an exception  *)
(* raised in check_inputs or binary_matrix leaves main at once.            *)

\* as AfterRaise, had main caught the exception and gone on to its loop
AfterRaiseSwallowed == "main_loop"

\* raster.py:378-379, main calls check_inputs outside any try block
AfterRaise == "raised"

Raise(type, fn, line) ==
    /\ pc' = AfterRaise
    /\ err' = Error(type, fn, line)

Goto(p) ==
    /\ pc' = p
    /\ err' = err

\* as CheckOrder, had the auxiliary directories been created right after the
\* whitelist check
CheckOrderAuxFirst ==
    << "ci_index", "ci_norm", "ci_whitelist", "ci_aux", "ci_dtm", "ci_simdirs",
       "ci_simdir", "ci_seasons", "ci_dates", "ci_horizon", "ci_rp", "ci_mesh" >>

\* raster.py:74-200, the steps of check_inputs in the order of its statements
CheckOrder ==
    << "ci_index", "ci_norm", "ci_whitelist", "ci_dtm", "ci_simdirs", "ci_simdir",
       "ci_seasons", "ci_aux", "ci_dates", "ci_horizon", "ci_rp", "ci_mesh" >>

\* position of a step in the body of check_inputs
Position(step) == CHOOSE i \in 1..Len(CheckOrder) : CheckOrder[i] = step

\* the statement control falls through to when a step is over
StepAfter(step) == CheckOrder[Position(step) + 1]

-----------------------------------------------------------------------------
(* check_inputs, raster.py:19-200 *)

\* raster.py:75-77
CheckIndexPresent ==
    /\ pc = "ci_index"
    /\ \E ix \in Reveal(info.index, IndexOptions) :
          /\ info' = [info EXCEPT !.index = ix]
          /\ IF ix.st = "absent"
                THEN Raise("ValueError", "check_inputs", 77)
                ELSE Goto(StepAfter("ci_index"))
    /\ UNCHANGED <<entry, env, eff, loc>>

\* raster.py:80-81, a scalar index becomes a one-element list
NormaliseIndex(ix) ==
    IF ix.st = "list" THEN ix ELSE [st |-> "list", v |-> ix.v]

CheckIndexIsList ==
    /\ pc = "ci_norm"
    /\ info' = [info EXCEPT !.index = NormaliseIndex(info.index)]
    /\ Goto(StepAfter("ci_norm"))
    /\ UNCHANGED <<entry, env, eff, loc>>

\* as ValidIndex, with the names binary_matrix dispatches on let through
ValidIndexLegacy(name) == name \in Whitelist \cup {"flooded_area", "flood_RP"}

\* raster.py:85-90
ValidIndex(name) == name \in Whitelist

\* raster.py:84-92
CheckIndexValues ==
    /\ pc = "ci_whitelist"
    /\ IF \E i \in 1..Len(info.index.v) : ~ValidIndex(info.index.v[i])
          THEN Raise("ValueError", "check_inputs", 92)
          ELSE Goto(StepAfter("ci_whitelist"))
    /\ UNCHANGED <<entry, info, env, eff, loc>>

\* raster.py:97-99, info["input_dtm"].exists()
CheckInputDtm ==
    /\ pc = "ci_dtm"
    /\ \E present \in (IF info.input_dtm = "unread" THEN BOOLEAN
                       ELSE {info.input_dtm = "set"}) :
        IF ~present
          THEN /\ info' = [info EXCEPT !.input_dtm = "absent"]
               /\ Raise("KeyError", "check_inputs", 97)
               /\ eff' = eff
          ELSE /\ info' = [info EXCEPT !.input_dtm = "set"]
               /\ eff' = [eff EXCEPT !.tested = @ \cup {"input_dtm"}]
               /\ \E exists \in BOOLEAN :
                    IF exists THEN Goto(StepAfter("ci_dtm"))
                    ELSE Raise("FileNotFoundError", "check_inputs", 99)
    /\ UNCHANGED <<entry, env, loc>>

\* raster.py:102, range(1, info["no_sims"])
SimRange(n) == 1..(n - 1)

\* raster.py:101-102
InitDtmFilenames ==
    /\ pc = "ci_simdirs"
    /\ \E n \in Reveal(info.no_sims, {Absent(0)} \cup {Set(m) : m \in 0..MaxSims}) :
          /\ info' = [info EXCEPT !.no_sims = n,
                                  !.dtm_filenames = [st |-> "list", v |-> <<>>]]
          /\ IF n.st = "absent"
                THEN Raise("KeyError", "check_inputs", 102)
                ELSE Goto(StepAfter("ci_simdirs"))
    /\ loc' = [loc EXCEPT !.sim = 1]
    /\ UNCHANGED <<entry, env, eff>>

\* Python list item assignment lst[i] = x succeeds only inside the list
ListSetItemOK(lst, i) == i >= 0 /\ i < Len(lst)

\* raster.py:103, the per-simulation directory <parent>/<sim zero-padded to 4>
SimDirPath(sim) == <<"simdir", sim>>

\* raster.py:102-118, one iteration of the per-simulation directory loop.
\* glob (glob2, not part of this repository) is given a Path: it either
\* returns the list of the paths it matches or rejects its argument.
CheckSimDir ==
    /\ pc = "ci_simdir"
    /\ IF loc.sim \notin SimRange(info.no_sims.v)
         THEN /\ Goto(StepAfter("ci_simdir"))
              /\ UNCHANGED <<info, env, eff, loc>>
         ELSE \E kind \in (IF info.dir_input_dtm = "unread" THEN {"Path", "str"}
                           ELSE {info.dir_input_dtm}) :
              IF kind = "str"
                THEN \* 'str' object has no attribute 'parent'
                     /\ info' = [info EXCEPT !.dir_input_dtm = kind]
                     /\ Raise("AttributeError", "check_inputs", 103)
                     /\ UNCHANGED <<env, eff, loc>>
                ELSE \E d \in (IF env.dirs[loc.sim] = "untested"
                                 THEN {"missing", "exists"}
                                 ELSE {env.dirs[loc.sim]}),
                        nfiles \in 0..MaxFiles, globbed \in BOOLEAN :
                     /\ env' = [env EXCEPT !.dirs[loc.sim] = d]
                     /\ eff' = [eff EXCEPT !.tested = @ \cup {SimDirPath(loc.sim)}]
                     /\ IF d = "missing"
                          THEN /\ info' = [info EXCEPT !.dir_input_dtm = kind]
                               /\ Raise("FileNotFoundError", "check_inputs", 106)
                               /\ loc' = loc
                          ELSE IF ~globbed
                          THEN /\ info' = [info EXCEPT !.dir_input_dtm = kind]
                               /\ Raise("TypeError", "check_inputs", 110)
                               /\ loc' = loc
                          ELSE IF ~ListSetItemOK(info.dtm_filenames.v, loc.sim)
                          THEN /\ info' = [info EXCEPT !.dir_input_dtm = kind]
                               /\ Raise("IndexError", "check_inputs", 110)
                               /\ loc' = loc
                          ELSE IF nfiles = 0
                          THEN /\ info' = [info EXCEPT !.dir_input_dtm = kind,
                                              !.dtm_filenames.v[loc.sim + 1] = nfiles]
                               /\ Raise("ValueError", "check_inputs", 116)
                               /\ loc' = loc
                          ELSE /\ info' = [info EXCEPT !.dir_input_dtm = kind,
                                              !.dtm_filenames.v[loc.sim + 1] = nfiles]
                               /\ Goto("ci_simdir")
                               /\ loc' = [loc EXCEPT !.sim = @ + 1]
    /\ UNCHANGED entry

\* raster.py:121-126
DefaultSeasons ==
    /\ pc = "ci_seasons"
    /\ \E s \in (IF info.seasons = "unread" THEN {"absent", "custom"}
                 ELSE {info.seasons}) :
          info' = [info EXCEPT !.seasons = IF s = "absent" THEN "default" ELSE s]
    /\ Goto(StepAfter("ci_seasons"))
    /\ UNCHANGED <<entry, env, eff, loc>>

\* raster.py:128-137, info["auxiliary_folders"] is rebound to a fresh
\* dictionary in every iteration: the keys left are those of the last one
AuxiliaryFolders(names) ==
    IF Len(names) = 0 THEN info.auxiliary_folders
    ELSE Set({names[Len(names)]})

\* raster.py:133-137, output_path / temp_folder / "matrix" for every index
MatrixDir(name) == "matrix"

\* raster.py:128-141
CreateAuxiliaryFolders ==
    /\ pc = "ci_aux"
    /\ info' = [info EXCEPT !.auxiliary_folders = AuxiliaryFolders(info.index.v)]
    /\ eff' = [eff EXCEPT !.created =
                  @ \cup { MatrixDir(info.index.v[i]) : i \in 1..Len(info.index.v) }]
    /\ Goto(StepAfter("ci_aux"))
    /\ loc' = [loc EXCEPT !.j = 1]
    /\ UNCHANGED <<entry, env>>

\* raster.py:146-150 and 156, read_csv(header=None) numbers the rows: the
\* index of the frame is 0..rows-1
DateIndex(rows) == [i \in 1..rows |-> i - 1]

\* as DatesDiffer, comparing the first date only
DatesDifferFirstOnly(dates, index) == dates[1] # index[1]

\* raster.py:158, np.all(list != list): the comparison of two lists is one bool
DatesDiffer(dates, index) == dates # index

LevelsPath(sim) == <<"levels.csv", sim>>

\* what reading <input_dtm>/<sim>/levels.csv finds, kept for later reads
LevelsFound(sim) ==
    IF env.levels[sim].st = "unread"
      THEN {[st |-> "missing", rows |-> 0]}
           \cup { [st |-> "read", rows |-> n] : n \in 0..MaxDates }
      ELSE {env.levels[sim]}

\* raster.py:144-164, one iteration of the date-equality loop
CheckDates ==
    /\ pc = "ci_dates"
    /\ \E sims \in Reveal(info.proj_no_sims, {Absent(<<>>)} \cup {Set(l) : l \in SimLists}) :
        IF sims.st = "absent"
          THEN /\ info' = [info EXCEPT !.proj_no_sims = sims]
               /\ Raise("KeyError", "check_inputs", 144)
               /\ UNCHANGED <<env, eff, loc>>
        ELSE IF loc.j > Len(sims.v)
          THEN /\ info' = [info EXCEPT !.proj_no_sims = sims]
               /\ Goto(StepAfter("ci_dates"))
               /\ UNCHANGED <<env, eff, loc>>
        ELSE LET sim == sims.v[loc.j] IN
             \E f \in LevelsFound(sim) :
               /\ env' = [env EXCEPT !.levels[sim] = f]
               /\ loc' = [loc EXCEPT !.j = @ + 1]
               /\ IF f.st = "missing"
                    THEN /\ info' = [info EXCEPT !.proj_no_sims = sims]
                         /\ Raise("FileNotFoundError", "check_inputs", 153)
                         /\ eff' = eff
                  ELSE IF f.rows = 0
                    THEN \* pandas raises on a file with no rows
                         /\ info' = [info EXCEPT !.proj_no_sims = sims]
                         /\ Raise("EmptyDataError", "check_inputs", 146)
                         /\ eff' = [eff EXCEPT !.read = @ \cup {LevelsPath(sim)}]
                  ELSE IF sim = 1
                    THEN /\ info' = [info EXCEPT !.proj_no_sims = sims,
                                        !.dates = Set(DateIndex(f.rows))]
                         /\ Goto("ci_dates")
                         /\ eff' = [eff EXCEPT !.read = @ \cup {LevelsPath(sim)}]
                  ELSE IF info.dates.st # "set"
                    THEN /\ info' = [info EXCEPT !.proj_no_sims = sims]
                         /\ Raise("KeyError", "check_inputs", 158)
                         /\ eff' = [eff EXCEPT !.read = @ \cup {LevelsPath(sim)}]
                  ELSE IF DatesDiffer(info.dates.v, DateIndex(f.rows))
                    THEN /\ info' = [info EXCEPT !.proj_no_sims = sims]
                         /\ Raise("ValueError", "check_inputs", 162)
                         /\ eff' = [eff EXCEPT !.read = @ \cup {LevelsPath(sim)}]
                    ELSE /\ info' = [info EXCEPT !.proj_no_sims = sims]
                         /\ Goto("ci_dates")
                         /\ eff' = [eff EXCEPT !.read = @ \cup {LevelsPath(sim)}]
    /\ UNCHANGED entry

\* as HorizonMissing, taking the dates to be numbered from 1
HorizonMissingOneBased(horizon_time, dates) ==
    horizon_time \notin { d + 1 : d \in Range(dates) }

\* raster.py:169, horizon_time not in info["dates"]
HorizonMissing(horizon_time, dates) == horizon_time \notin Range(dates)

\* raster.py:167-175
CheckHorizonTimes ==
    /\ pc = "ci_horizon"
    /\ \E h \in Reveal(info.horizon_times,
                       {Absent(<<>>)} \cup {Set(l) : l \in SeqsUpTo(HorizonVals, MaxHorizon)}) :
          /\ info' = [info EXCEPT !.horizon_times = h]
          /\ IF h.st = "absent" \/ Len(h.v) = 0
               THEN Goto(StepAfter("ci_horizon"))
             ELSE IF info.dates.st # "set"
               THEN Raise("KeyError", "check_inputs", 169)
             ELSE IF \E i \in 1..Len(h.v) : HorizonMissing(h.v[i], info.dates.v)
               THEN Raise("ValueError", "check_inputs", 173)
               ELSE Goto(StepAfter("ci_horizon"))
    /\ UNCHANGED <<entry, env, eff, loc>>

\* as NotPositive, with zero let through
NotPositiveStrict(rp) == rp < 0

\* raster.py:180
NotPositive(rp) == rp <= 0

\* raster.py:178-182
CheckReturnPeriods ==
    /\ pc = "ci_rp"
    /\ \E r \in Reveal(info.return_periods,
                       {Absent(<<>>)} \cup {Set(l) : l \in SeqsUpTo(ReturnPeriodVals, MaxRP)}) :
          /\ info' = [info EXCEPT !.return_periods = r]
          /\ IF r.st = "set" /\ \E i \in 1..Len(r.v) : NotPositive(r.v[i])
               THEN Raise("ValueError", "check_inputs", 182)
               ELSE Goto(StepAfter("ci_rp"))
    /\ UNCHANGED <<entry, env, eff, loc>>

\* raster.py:188 and 194, the advisory thresholds of the mesh size
MeshWarnLimit == 10000000
MeshInfoLimit == 1000000

\* raster.py:187-198
MeshLog(total_points) ==
    IF total_points > MeshWarnLimit THEN "warning"
    ELSE IF total_points > MeshInfoLimit THEN "info"
    ELSE "none"

\* sizes of the x and y arrays of the raster the mesh check reads
MeshNx == {1000, 10000}
MeshNy == {1000, 1001}

\* common/read.py is not among the sources: ascii_tiff reads one raster file
\* into x, y and z arrays.  check_inputs unpacks its result as a pair
\* (raster.py:185) and binary_matrix subscripts it as a mapping
\* (raster.py:271, 323); which of the two it returns is drawn once
TiffReturns ==
    IF env.tiff_returns = "unread" THEN {"pair", "mapping"} ELSE {env.tiff_returns}

\* raster.py:185-200
CheckMeshSize ==
    /\ pc = "ci_mesh"
    /\ \E kind \in (IF info.dir_input_dtm = "unread" THEN {"Path", "str"}
                    ELSE {info.dir_input_dtm}),
          readable \in BOOLEAN, shape \in TiffReturns,
          nx \in MeshNx, ny \in MeshNy :
          /\ IF kind = "Path"
               THEN \* a Path is not subscriptable
                    /\ Raise("TypeError", "check_inputs", 185)
                    /\ info' = [info EXCEPT !.dir_input_dtm = kind]
                    /\ UNCHANGED <<env, eff>>
             ELSE IF ~readable
               THEN /\ Raise("OSError", "check_inputs", 185)
                    /\ info' = [info EXCEPT !.dir_input_dtm = kind]
                    /\ UNCHANGED <<env, eff>>
             ELSE IF shape = "mapping"
               THEN \* three keys cannot be unpacked into dem, _
                    /\ Raise("ValueError", "check_inputs", 185)
                    /\ info' = [info EXCEPT !.dir_input_dtm = kind]
                    /\ env' = [env EXCEPT !.tiff_returns = shape]
                    /\ eff' = [eff EXCEPT !.read = @ \cup {<<"mesh raster", 0>>}]
             ELSE IF MeshLog(nx * ny) = "warning"
               THEN \* the warning's text reads info['grid_size'] (line 192)
                    \E grid_size \in {"absent", "set"} :
                       /\ info' = [info EXCEPT !.dir_input_dtm = kind,
                                               !.grid_size = grid_size]
                       /\ env' = [env EXCEPT !.tiff_returns = shape]
                       /\ IF grid_size = "absent"
                            THEN /\ Raise("KeyError", "check_inputs", 192)
                                 /\ eff' = [eff EXCEPT !.read = @ \cup {<<"mesh raster", 0>>}]
                            ELSE /\ Goto(IF entry = "main" THEN "main_loop" ELSE "done")
                                 /\ eff' = [eff EXCEPT !.read = @ \cup {<<"mesh raster", 0>>},
                                                       !.log = "warning"]
               ELSE /\ Goto(IF entry = "main" THEN "main_loop" ELSE "done")
                    /\ info' = [info EXCEPT !.dir_input_dtm = kind]
                    /\ env' = [env EXCEPT !.tiff_returns = shape]
                    /\ eff' = [eff EXCEPT !.read = @ \cup {<<"mesh raster", 0>>},
                                          !.log = MeshLog(nx * ny)]
    /\ UNCHANGED <<entry, loc>>

-----------------------------------------------------------------------------
(* main, raster.py:378-389 *)

ProjectIndexOptions ==
    {Absent(<<>>)}
    \cup { Set(l) : l \in SeqsUpTo({"mean-presence-boundary"}, MaxIndex) }

\* raster.py:380-386, one iteration of the loop over info["project"]["index"]
MainLoop ==
    /\ pc = "main_loop"
    /\ \E ix \in Reveal(info.proj_index, ProjectIndexOptions) :
          /\ info' = [info EXCEPT !.proj_index = ix]
          /\ IF ix.st = "absent"
               THEN /\ Raise("KeyError", "main", 380)
                    /\ loc' = loc
             ELSE IF loc.k >= Len(ix.v)
               THEN /\ Goto("done")
                    /\ loc' = loc
               ELSE \* raster.py:381-384, logger.info
                    /\ Goto("bm_start")
                    /\ loc' = [loc EXCEPT !.k = @ + 1]
    /\ eff' = IF info'.proj_index.st = "set" /\ loc.k < Len(info'.proj_index.v)
                THEN [eff EXCEPT !.log = "info"] ELSE eff
    /\ UNCHANGED <<entry, env>>

-----------------------------------------------------------------------------
(* band, utils.py:121-191 *)

\* the cells of the arrays da_dem["x"], da_dem["y"], da_dem["z"]: <<row, column>>
GridCells == (1..GridRows) \X (1..GridCols)

\* elevations of the grids band is applied to, and the level pairs
BandElevVals == {0, 1}
BandLevels == { <<0, 2>>, <<2, 0>>, <<1, 2>>, <<0, 1>>, <<1, 1>> }
Orientations == {"WE", "NS", "other"}

Min2(levels) == IF levels[1] <= levels[2] THEN levels[1] ELSE levels[2]
Max2(levels) == IF levels[1] >= levels[2] THEN levels[1] ELSE levels[2]

\* as InitialMask, with the bounds of the interval let in
InitialMaskClosed(z, levels) ==
    [ p \in GridCells |-> IF z[p] <= Max2(levels) /\ z[p] >= Min2(levels) THEN 1 ELSE 0 ]

\* utils.py:152, z_: 1 where the elevation is strictly between the levels
InitialMask(z, levels) ==
    [ p \in GridCells |-> IF z[p] < Max2(levels) /\ z[p] > Min2(levels) THEN 1 ELSE 0 ]

\* utils.py:167-170, the rows with a 1, and 173-176, the columns with a 1
RowsWithAny(z_) == { i \in 1..GridRows : \E c \in 1..GridCols : z_[<<i, c>>] = 1 }
ColsWithAny(z_) == { i \in 1..GridCols : \E r \in 1..GridRows : z_[<<r, i>>] = 1 }

\* as ExtendedMask, without the extension along the orientation
ExtendedMaskOff(z_, orientation_) == z_

\* utils.py:163-176, mask: z_ with every row (WE) or column (NS) that has a
\* 1 set to 1 throughout; left as z_ for any other orientation
ExtendedMask(z_, orientation_) ==
    [ p \in GridCells |->
        IF orientation_ = "WE" THEN (IF p[1] \in RowsWithAny(z_) THEN 1 ELSE z_[p])
        ELSE IF orientation_ = "NS" THEN (IF p[2] \in ColsWithAny(z_) THEN 1 ELSE z_[p])
        ELSE z_[p] ]

\* utils.py:164-176, len_
BandLen(z_, orientation_) ==
    IF orientation_ = "WE" THEN Cardinality(RowsWithAny(z_))
    ELSE IF orientation_ = "NS" THEN Cardinality(ColsWithAny(z_))
    ELSE 0

\* as Reshapable, an empty array taking any shape
ReshapableEmpty(size, given) == size = 0 \/ (given # 0 /\ size % given = 0)

\* numpy reshape of size elements to a shape with one dimension given and
\* one left open (-1): possible when the given one is not 0 and divides size
Reshapable(size, given) == given # 0 /\ size % given = 0

\* the length reshape gives the dimension left open
OpenDim(size, given) == IF given = 0 THEN 0 ELSE size \div given

\* utils.py:180-181, da_dem["x"][band_]: the n-th of the True cells of band_
\* in row-major order, counted from 1
Selected(band_, n) ==
    CHOOSE p \in band_ :
       Cardinality({ q \in band_ : q[1] < p[1] \/ (q[1] = p[1] /\ q[2] <= p[2]) }) = n

\* utils.py:184-189, the selected cells reshaped: entry <<k, j>> of an array
\* of shape <<d1, d2>> is the ((k-1)*d2 + j)-th selected cell; the arrays X
\* and Y hold the x and the y of that cell
Reshaped(band_, shape) ==
    IF Len(shape) = 2
      THEN [ kj \in (1..shape[1]) \X (1..shape[2]) |->
               Selected(band_, (kj[1] - 1) * shape[2] + kj[2]) ]
      ELSE [ kj \in { <<n>> : n \in 1..shape[1] } |-> Selected(band_, kj[1]) ]

\* utils.py:152-191: the exception band raises, or the mask band_ (as the
\* set of its True cells) and the shape of the coordinate arrays it returns
Band(z, levels, orientation_) ==
    LET z_ == InitialMask(z, levels)
        mask == ExtendedMask(z_, orientation_)
        len_ == BandLen(z_, orientation_)
        band_ == { p \in GridCells : mask[p] = 1 }
        size == Cardinality(band_)
        shape == IF orientation_ = "NS" THEN <<OpenDim(size, len_), len_>>
                 ELSE IF orientation_ = "WE" THEN <<len_, OpenDim(size, len_)>>
                 ELSE <<size>>
    IN  IF orientation_ = "NS" /\ ~Reshapable(size, len_)
          THEN [err |-> Error("ValueError", "band", 185), z_ |-> z_, band_ |-> {},
                shape |-> <<>>, coords |-> <<>>]
        ELSE IF orientation_ = "WE" /\ ~Reshapable(size, len_)
          THEN [err |-> Error("ValueError", "band", 188), z_ |-> z_, band_ |-> {},
                shape |-> <<>>, coords |-> <<>>]
        ELSE [ err |-> NoError, z_ |-> z_, band_ |-> band_, shape |-> shape,
               coords |-> Reshaped(band_, shape) ]

\* a direct call band(da_dem, levels, orientation_)
BandCall ==
    /\ pc = "band"
    /\ \E z \in [GridCells -> BandElevVals], levels \in BandLevels,
          orientation_ \in Orientations :
        LET result == Band(z, levels, orientation_) IN
        /\ loc' = [loc EXCEPT !.args = [z |-> z, levels |-> levels,
                                         orientation_ |-> orientation_],
                              !.ret = result]
        /\ IF result.err.type # "none"
             THEN pc' = AfterRaise /\ err' = result.err
             ELSE Goto("done")
    /\ UNCHANGED <<entry, info, env, eff>>

-----------------------------------------------------------------------------
(* binary_matrix, raster.py:262-375 *)

Cells == 1..NCells
ElevVals == 0..2
NaN == 99

\* raster.py:386 and 375: back in main's loop, or back at the caller
BmReturn == IF entry = "main" THEN "main_loop" ELSE "done"

\* raster.py:270-271
BmInitialDem ==
    /\ pc = "bm_start"
    /\ \E present \in (IF info.dtm_files = "unread" THEN BOOLEAN
                       ELSE {info.dtm_files = "set"}),
          readable \in BOOLEAN, shape \in TiffReturns :
        IF ~present
          THEN /\ info' = [info EXCEPT !.dtm_files = "absent"]
               /\ Raise("KeyError", "binary_matrix", 270)
               /\ loc' = [loc EXCEPT !.calls = @ + 1, !.bm = BmLocals]
               /\ UNCHANGED <<env, eff>>
        ELSE IF ~readable
          THEN /\ info' = [info EXCEPT !.dtm_files = "set"]
               /\ Raise("OSError", "binary_matrix", 271)
               /\ loc' = [loc EXCEPT !.calls = @ + 1, !.bm = BmLocals]
               /\ UNCHANGED <<env, eff>>
          ELSE /\ info' = [info EXCEPT !.dtm_files = "set"]
               /\ Goto("bm_refine")
               /\ loc' = [loc EXCEPT !.calls = @ + 1,
                                     !.bm = [BmLocals EXCEPT !.da_dem = shape]]
               /\ env' = [env EXCEPT !.tiff_returns = shape]
               /\ eff' = [eff EXCEPT !.loaded = @ + 1]
    /\ UNCHANGED entry

\* raster.py:273-280 with utils.py:121-191 (band) and utils.py:41-118
\* (calculate_grid_angle_and_create_rotated_mesh).  band is applied to the
\* grid of the initial raster; the mesh function subscripts the coordinate
\* arrays band returns with two indices (utils.py:80), which the
\* one-dimensional arrays of an orientation other than WE and NS do not have.
BmRefinementBand ==
    /\ pc = "bm_refine"
    /\ \E r \in Reveal(info.refinement, {Absent(FALSE), Set(TRUE), Set(FALSE)}),
          band_keys \in BOOLEAN, refinement_size \in BOOLEAN :
          /\ info' = [info EXCEPT !.refinement = r]
          /\ IF r.st = "absent"
               THEN /\ Raise("KeyError", "binary_matrix", 273)
                    /\ loc' = loc
             ELSE IF ~r.v
               THEN /\ Goto("bm_sim")
                    /\ loc' = loc
             ELSE IF ~band_keys
               THEN \* info["band_levels"] is written by pretratement only
                    /\ Raise("KeyError", "binary_matrix", 275)
                    /\ loc' = loc
             ELSE IF loc.bm.da_dem = "pair"
               THEN \* band subscripts da_dem["z"], utils.py:152
                    /\ Raise("TypeError", "band", 152)
                    /\ loc' = loc
             ELSE \E z \in [GridCells -> BandElevVals], levels \in BandLevels,
                     orientation_ \in Orientations :
                  LET result == Band(z, levels, orientation_)
                      called == [loc EXCEPT !.args = [z |-> z, levels |-> levels,
                                                      orientation_ |-> orientation_]]
                  IN
                  IF result.err.type # "none"
                    THEN /\ pc' = AfterRaise
                         /\ err' = result.err
                         /\ loc' = called
                  ELSE IF ~refinement_size
                    THEN /\ Raise("KeyError", "binary_matrix", 279)
                         /\ loc' = [called EXCEPT !.band_builds = @ + 1]
                  ELSE IF Len(result.shape) # 2
                    THEN /\ Raise("IndexError",
                                  "calculate_grid_angle_and_create_rotated_mesh", 80)
                         /\ loc' = [called EXCEPT !.band_builds = @ + 1]
                    ELSE /\ Goto("bm_sim")
                         /\ loc' = [loc EXCEPT !.bm.coords = "band",
                                               !.bm.band_ = result.band_,
                                               !.band_builds = @ + 1,
                                               !.mesh_builds = @ + 1]
    /\ UNCHANGED <<entry, env, eff>>

\* raster.py:290-299, the index names with a level rule read from the level series
DateIndexed ==
    {"shoreline", "wave_extend", "flooded_area", "permanent_flood", "mean_level"}

\* raster.py:286-301, the head of one iteration of the simulation loop.
\* info["index"] == "<name>" compares the configured value with a string:
\* a list equals none.
BmSelectLevel ==
    /\ pc = "bm_sim"
    /\ \E sims \in Reveal(info.proj_no_sims, {Absent(<<>>)} \cup {Set(l) : l \in SimLists}),
          ix \in Reveal(info.index, IndexOptions) :
        IF sims.st = "absent"
          THEN /\ info' = [info EXCEPT !.proj_no_sims = sims]
               /\ Raise("KeyError", "binary_matrix", 286)
               /\ loc' = loc
        ELSE IF loc.bm.bj > Len(sims.v)
          THEN /\ info' = [info EXCEPT !.proj_no_sims = sims]
               /\ Goto(BmReturn)
               /\ loc' = loc
        ELSE LET sim_no == sims.v[loc.bm.bj]
                 fresh == [loc EXCEPT !.bm.sim_no = sim_no,
                              !.bm.bin_mask = {m \in @ : m[1] # sim_no}]
             IN
             /\ info' = [info EXCEPT !.proj_no_sims = sims, !.index = ix]
             /\ IF ix.st = "absent"
                  THEN /\ Raise("KeyError", "binary_matrix", 290)
                       /\ loc' = fresh
                ELSE IF ix.st = "str" /\ ix.v[1] \in DateIndexed
                  THEN \* the rule reads df_levels_per_date before line 305 binds it
                       /\ Raise(IF loc.bm.df_levels_per_date = "unbound"
                                  THEN "UnboundLocalError" ELSE "KeyError",
                                "binary_matrix", 291)
                       /\ loc' = [fresh EXCEPT !.bm.failed = @ \cup {sim_no}]
                ELSE IF ix.st = "str" /\ ix.v[1] = "flood_RP"
                  THEN /\ Goto("bm_rp")
                       /\ loc' = [fresh EXCEPT !.bm.date_loop = FALSE, !.bm.unit = 1]
                  ELSE /\ Goto(IF loc.bm.date_loop THEN "bm_levels" ELSE "bm_rp")
                       /\ loc' = [fresh EXCEPT !.bm.unit = 1]
    /\ UNCHANGED <<entry, env, eff>>

\* raster.py:305-309
BmReadLevels ==
    /\ pc = "bm_levels"
    /\ \E f \in LevelsFound(loc.bm.sim_no) :
          /\ env' = [env EXCEPT !.levels[loc.bm.sim_no] = f]
          /\ IF f.st = "missing"
               THEN /\ Raise("FileNotFoundError", "binary_matrix", 305)
                    /\ loc' = [loc EXCEPT !.bm.failed = @ \cup {loc.bm.sim_no}]
                    /\ eff' = eff
             ELSE IF f.rows = 0
               THEN /\ Raise("EmptyDataError", "binary_matrix", 305)
                    /\ loc' = [loc EXCEPT !.bm.failed = @ \cup {loc.bm.sim_no}]
                    /\ eff' = [eff EXCEPT !.read = @ \cup {LevelsPath(loc.bm.sim_no)}]
               ELSE /\ Goto("bm_date")
                    /\ loc' = [loc EXCEPT !.bm.df_levels_per_date = "bound",
                                          !.bm.file_no = 0]
                    /\ eff' = [eff EXCEPT !.read = @ \cup {LevelsPath(loc.bm.sim_no)}]
    /\ UNCHANGED <<entry, info>>

\* info["dtm_filenames"] as a caller of binary_matrix may have built it: a
\* list (as check_inputs leaves it) or a dictionary keyed by simulation id,
\* each entry a list of n raster paths; v[i] is the length of the i-th entry
DtmFilenamesOptions ==
    {Absent(<<>>), [st |-> "list", v |-> <<>>]}
    \cup { [st |-> "dict", v |-> [s \in Sims |-> n]] : n \in 0..MaxFiles }

\* raster.py:315, info["dtm_filenames"][sim_no][file_no]
FileLookup(names, sim_no, file_no) ==
    IF names.st = "absent" THEN "KeyError"
    ELSE IF names.st = "list" /\ ~(sim_no < Len(names.v)) THEN "IndexError"
    ELSE IF names.st = "dict" /\ sim_no \notin 1..Len(names.v) THEN "KeyError"
    ELSE IF ~(file_no < names.v[IF names.st = "list" THEN sim_no + 1 ELSE sim_no])
         THEN "IndexError"
    ELSE "found"

\* raster.py:326, Z < level cell by cell; a comparison with NaN is False
Mask(Z, level) == { c \in Cells : Z[c] # NaN /\ Z[c] < level }

\* as DateLoopDone, leaving the loop one date early
DateLoopDoneEarly(file_no, dates) == file_no >= Len(dates) - 1

\* raster.py:311, enumerate(info["dates"]) is exhausted
DateLoopDone(file_no, dates) == file_no >= Len(dates)

\* raster.py:311-329, one iteration of the date loop
BmDateMask ==
    /\ pc = "bm_date"
    /\ \E dates \in Reveal(info.dates, {Absent(<<>>)}
                              \cup {Set(DateIndex(n)) : n \in 0..MaxDates}),
          names \in Reveal(info.dtm_filenames, DtmFilenamesOptions),
          readable \in BOOLEAN, shape \in TiffReturns :
        LET sim_no == loc.bm.sim_no
            file_no == loc.bm.file_no
            fail == [loc EXCEPT !.bm.failed = @ \cup {sim_no}]
        IN
        IF dates.st = "absent"
          THEN /\ info' = [info EXCEPT !.dates = dates]
               /\ Raise("KeyError", "binary_matrix", 311)
               /\ loc' = fail
               /\ UNCHANGED <<env, eff>>
        ELSE IF DateLoopDone(file_no, dates.v)
          THEN /\ info' = [info EXCEPT !.dates = dates]
               /\ Goto("bm_save")
               /\ UNCHANGED <<env, eff, loc>>
        ELSE IF FileLookup(names, sim_no, file_no) # "found"
          THEN /\ info' = [info EXCEPT !.dates = dates, !.dtm_filenames = names]
               /\ Raise(FileLookup(names, sim_no, file_no), "binary_matrix", 315)
               /\ loc' = [fail EXCEPT !.bm.date = Bound(dates.v[file_no + 1])]
               /\ UNCHANGED <<env, eff>>
        ELSE IF ~readable
          THEN /\ info' = [info EXCEPT !.dates = dates, !.dtm_filenames = names]
               /\ Raise("OSError", "binary_matrix", 318)
               /\ loc' = [fail EXCEPT !.bm.date = Bound(dates.v[file_no + 1])]
               /\ UNCHANGED <<env, eff>>
        ELSE /\ info' = [info EXCEPT !.dates = dates, !.dtm_filenames = names]
             /\ env' = [env EXCEPT !.tiff_returns = shape]
             /\ eff' = [eff EXCEPT !.loaded = @ + 1]
             /\ IF shape = "pair"
                  THEN \* refinement subscripts da_dem["x"] (utils.py:233),
                       \* line 323 subscripts da_dem["z"]
                       /\ Raise("TypeError", "binary_matrix",
                                IF info.refinement.v THEN 321 ELSE 323)
                       /\ loc' = [fail EXCEPT !.bm.date = Bound(dates.v[file_no + 1]),
                                              !.bm.da_dem = shape]
                ELSE IF ~loc.bm.level.bound
                  THEN /\ Raise("UnboundLocalError", "binary_matrix", 326)
                       /\ loc' = [fail EXCEPT !.bm.date = Bound(dates.v[file_no + 1]),
                                              !.bm.da_dem = shape]
                  ELSE \* Z is the raw grid da_dem["z"] (323) or the grid
                       \* refinement interpolates (321), NaN outside the hull
                       \E Z \in [Cells -> IF info.refinement.v
                                            THEN ElevVals \cup {NaN} ELSE ElevVals] :
                       /\ Goto("bm_date")
                       /\ loc' = [loc EXCEPT
                              !.bm.date = Bound(dates.v[file_no + 1]),
                              !.bm.da_dem = shape,
                              !.bm.file_no = @ + 1,
                              !.bm.bin_mask =
                                 {m \in @ : ~(m[1] = sim_no /\ m[2] = dates.v[file_no + 1])}
                                 \cup {<<sim_no, dates.v[file_no + 1],
                                         Mask(Z, loc.bm.level.v)>>}]
    /\ UNCHANGED entry

\* names bound in the scope of binary_matrix's body: `glob` is the function
\* imported from glob2 (raster.py:6), which has no attribute `glob`
GlobHasAttrGlob == FALSE

LevelVals == 0..2

\* the (return_period, horizon_time) pairs in loop order, raster.py:331-332
Units(rps, hts) ==
    [ u \in 1..(Len(rps) * Len(hts)) |->
        <<rps[((u - 1) \div Len(hts)) + 1], hts[((u - 1) % Len(hts)) + 1]>> ]

\* values of info["year_ini"]
YearIniVals == {0, 1}

\* a column of levels_rp_tH.csv: the level of one return period at the year
\* offsets 0..MaxYears-1 (the default row labels of read_csv)
Columns == [0..(MaxYears - 1) -> LevelVals]

\* raster.py:337-339, .loc[:k, column]: a label slice, both ends included,
\* of the rows labelled 0..k that exist
RowsUpTo(k) == { i \in 0..(MaxYears - 1) : i <= k }

\* as ReturnPeriodLevel, taking the level at the last year offset only
ReturnPeriodLevelLast(column, horizon_time, year_ini) ==
    LET rows == RowsUpTo(horizon_time - year_ini)
    IN  IF rows = {} THEN NaN ELSE column[MaxOf(rows)]

\* raster.py:337-340, level: the maximum of the column over the year offsets
\* up to horizon_time - year_ini; the maximum of no row is NaN
ReturnPeriodLevel(column, horizon_time, year_ini) ==
    LET rows == RowsUpTo(horizon_time - year_ini)
    IN  IF rows = {} THEN NaN ELSE MaxOf({ column[i] : i \in rows })

\* raster.py:331-359, one iteration of the return-period / horizon loops
BmReturnPeriodMask ==
    /\ pc = "bm_rp"
    /\ \E rps \in Reveal(info.return_periods,
                         {Absent(<<>>)} \cup {Set(l) : l \in SeqsUpTo(ReturnPeriodVals, MaxRP)}),
          hts \in Reveal(info.horizon_times,
                         {Absent(<<>>)} \cup {Set(l) : l \in SeqsUpTo(HorizonVals, MaxHorizon)}),
          table \in {"missing", "no column", "read"}, column \in Columns,
          has_year_ini \in BOOLEAN, year_ini \in YearIniVals :
        LET fail == [loc EXCEPT !.bm.failed = @ \cup {loc.bm.sim_no}]
            horizon_time == Units(rps.v, hts.v)[loc.bm.unit][2]
            level == ReturnPeriodLevel(column, horizon_time, year_ini)
            \* the table column and year_ini the level was taken from
            read == [column |-> column, year_ini |-> year_ini,
                     horizon_time |-> horizon_time]
        IN
        IF rps.st = "absent"
          THEN /\ info' = [info EXCEPT !.return_periods = rps]
               /\ Raise("KeyError", "binary_matrix", 331)
               /\ loc' = fail
        ELSE IF Len(rps.v) = 0
          THEN /\ info' = [info EXCEPT !.return_periods = rps]
               /\ Goto("bm_save")
               /\ loc' = loc
        ELSE IF hts.st = "absent"
          THEN /\ info' = [info EXCEPT !.return_periods = rps, !.horizon_times = hts]
               /\ Raise("KeyError", "binary_matrix", 332)
               /\ loc' = fail
        ELSE IF loc.bm.unit > Len(rps.v) * Len(hts.v)
          THEN /\ info' = [info EXCEPT !.return_periods = rps, !.horizon_times = hts]
               /\ Goto("bm_save")
               /\ loc' = loc
        ELSE /\ info' = [info EXCEPT !.return_periods = rps, !.horizon_times = hts]
             /\ IF table = "missing"
                  THEN /\ Raise("FileNotFoundError", "binary_matrix", 334)
                       /\ loc' = fail
                ELSE IF ~has_year_ini
                  THEN /\ Raise("KeyError", "binary_matrix", 338)
                       /\ loc' = fail
                ELSE IF table = "no column"
                  THEN /\ Raise("KeyError", "binary_matrix", 337)
                       /\ loc' = fail
                ELSE IF ~GlobHasAttrGlob
                  THEN /\ Raise("AttributeError", "binary_matrix", 343)
                       /\ loc' = [fail EXCEPT !.bm.level = Bound(level), !.args = read]
                ELSE IF ~loc.bm.date.bound
                  THEN \* line 359 stores the mask under `date`
                       /\ Raise("UnboundLocalError", "binary_matrix", 359)
                       /\ loc' = [fail EXCEPT !.bm.level = Bound(level), !.args = read]
                  ELSE /\ Goto("bm_rp")
                       /\ loc' = [loc EXCEPT !.bm.level = Bound(level), !.args = read,
                                             !.bm.unit = @ + 1]
    /\ UNCHANGED <<entry, env, eff>>

-----------------------------------------------------------------------------
(* save_matrix_to_netcdf, utils.py:299-324 *)

\* module-level names of utils.py (lines 29-38 and the four function
\* definitions) and the names bound in save_matrix_to_netcdf (299-300, 303)
UtilsGlobals ==
    { "os", "Path", "plt", "np", "pd", "LinearNDInterpolator", "DEBUG_MODE",
      "calculate_grid_angle_and_create_rotated_mesh", "band", "refinement",
      "save2GISapp", "save_matrix_to_netcdf" }

SaveLocals == {"data", "coordinates", "time", "info", "sim_no", "filename", "xr", "ds"}

NameDefined(name) == name \in UtilsGlobals \cup SaveLocals

Digit(d) ==
    CASE d = 0 -> "0" [] d = 1 -> "1" [] d = 2 -> "2" [] d = 3 -> "3" [] d = 4 -> "4"
      [] d = 5 -> "5" [] d = 6 -> "6" [] d = 7 -> "7" [] d = 8 -> "8" [] OTHER -> "9"

RECURSIVE Str(_)
Str(n) == IF n < 10 THEN Digit(n) ELSE Str(n \div 10) \o Digit(n % 10)

RECURSIVE ZFill(_, _)
ZFill(s, width) == IF Len(s) >= width THEN s ELSE ZFill("0" \o s, width)

\* utils.py:303-315, the dataset built from the arguments: the mask variable,
\* the coordinate variables, the time axis and the attributes
Dataset(data, coordinates, time, stretch, sim_no) ==
    [ prob |-> data, x |-> coordinates, y |-> coordinates, time |-> time,
      stretch |-> stretch, sim |-> ZFill(Str(sim_no), 2) ]

\* utils.py:318-323, to_netcdf stores a boolean variable as one byte per
\* cell, 1 for True; opening the file turns the bytes back into booleans
ToNetcdf(ds) ==
    [ds EXCEPT !.prob = { <<m[1], [c \in Cells |-> IF c \in m[2] THEN 1 ELSE 0]>> : m \in @ }]

FromNetcdf(file) ==
    [file EXCEPT !.prob = { <<m[1], {c \in Cells : m[2][c] = 1}>> : m \in @ }]

\* utils.py:303-323: the exception the body raises, or none.  The names are
\* evaluated in the order data[season] (304), coordinates["x"] (306),
\* coordinates["y"] (307), season (311), stretch (312).
SaveMatrixToNetcdf(coordinate_keys) ==
    IF ~NameDefined("season") THEN Error("NameError", "save_matrix_to_netcdf", 304)
    ELSE IF "x" \notin coordinate_keys THEN Error("KeyError", "save_matrix_to_netcdf", 306)
    ELSE IF "y" \notin coordinate_keys THEN Error("KeyError", "save_matrix_to_netcdf", 307)
    ELSE IF ~NameDefined("stretch") THEN Error("NameError", "save_matrix_to_netcdf", 312)
    ELSE NoError

\* raster.py:361-364
OutputFilename(index, sim_no) == index \o "_sim_" \o ZFill(Str(sim_no), 2) \o ".nc"

\* the keys of the coordinates dictionary band returns, utils.py:191
BandCoordinateKeys == {"X", "Y"}

\* the masks of one simulation, bin_mask[sim_no]
MasksOf(sim_no) == { <<m[2], m[3]>> : m \in {n \in loc.bm.bin_mask : n[1] = sim_no} }

\* raster.py:361-374, the tail of one iteration of the simulation loop
BmSave ==
    /\ pc = "bm_save"
    /\ \E aux \in Reveal(info.auxiliary_folders,
                         {Absent({}), Set({}), Set(IndexNames)}),
          dates \in Reveal(info.dates, {Absent(<<>>)}
                              \cup {Set(DateIndex(n)) : n \in 0..MaxDates}) :
        LET sim_no == loc.bm.sim_no
            result == SaveMatrixToNetcdf(BandCoordinateKeys)
        IN
        IF aux.st = "absent"
          THEN /\ info' = [info EXCEPT !.auxiliary_folders = aux]
               /\ Raise("KeyError", "binary_matrix", 362)
               /\ UNCHANGED <<eff, loc>>
        ELSE IF info.index.st = "list"
          THEN \* a list is not hashable
               /\ info' = [info EXCEPT !.auxiliary_folders = aux]
               /\ Raise("TypeError", "binary_matrix", 362)
               /\ UNCHANGED <<eff, loc>>
        ELSE IF info.index.v[1] \notin aux.v
          THEN /\ info' = [info EXCEPT !.auxiliary_folders = aux]
               /\ Raise("KeyError", "binary_matrix", 362)
               /\ UNCHANGED <<eff, loc>>
        ELSE IF loc.bm.coords = "unbound"
          THEN \* coords is bound in the refinement branch only
               /\ info' = [info EXCEPT !.auxiliary_folders = aux]
               /\ Raise("UnboundLocalError", "binary_matrix", 368)
               /\ UNCHANGED <<eff, loc>>
        ELSE IF dates.st = "absent"
          THEN /\ info' = [info EXCEPT !.auxiliary_folders = aux, !.dates = dates]
               /\ Raise("KeyError", "binary_matrix", 369)
               /\ UNCHANGED <<eff, loc>>
        ELSE /\ info' = [info EXCEPT !.auxiliary_folders = aux, !.dates = dates]
             /\ IF result.type # "none"
                  THEN /\ pc' = AfterRaise
                       /\ err' = result
                       /\ loc' = [loc EXCEPT !.bm.saves[sim_no] = @ + 1]
                       /\ eff' = eff
                  ELSE /\ Goto("bm_sim")
                       /\ loc' = [loc EXCEPT !.bm.saves[sim_no] = @ + 1,
                                             !.bm.bj = @ + 1]
                       /\ eff' = [eff EXCEPT !.written = Append(@,
                              [ name |-> OutputFilename(info.index.v[1], sim_no),
                                sim |-> sim_no, call |-> loc.calls,
                                file |-> ToNetcdf(Dataset(MasksOf(sim_no),
                                            loc.bm.coords, dates.v, "WE", sim_no)) ])]
    /\ UNCHANGED <<entry, env>>

\* a direct call save_matrix_to_netcdf(data, coordinates, time, info, sim_no, filename)
SaveCall ==
    /\ pc = "save"
    /\ \E sim_no \in Sims, n \in 0..MaxDates,
          keys \in {{"x", "y"}, BandCoordinateKeys} :
      \E cube \in [0..(n - 1) -> SUBSET Cells] :
        LET result == SaveMatrixToNetcdf(keys) IN
        /\ loc' = [loc EXCEPT !.bm.sim_no = sim_no, !.bm.saves[sim_no] = @ + 1,
                              !.bm.bin_mask = { <<sim_no, d, cube[d]>> : d \in 0..(n - 1) },
                              !.bm.coords = IF keys = BandCoordinateKeys
                                            THEN "band" ELSE "xy"]
        /\ info' = [info EXCEPT !.dates = Set(DateIndex(n))]
        /\ IF result.type # "none"
             THEN /\ pc' = AfterRaise
                  /\ err' = result
                  /\ eff' = eff
             ELSE /\ Goto("done")
                  /\ eff' = [eff EXCEPT !.written = Append(@,
                         [ name |-> "filename", sim |-> sim_no, call |-> loc.calls,
                           file |-> ToNetcdf(Dataset({ <<d, cube[d]>> : d \in 0..(n - 1) },
                                          loc'.bm.coords, DateIndex(n),
                                          "WE", sim_no)) ])]
    /\ UNCHANGED <<entry, env>>

-----------------------------------------------------------------------------
(* calculate_grid_angle_and_create_rotated_mesh, utils.py:41-118.  Angles  *)
(* are in degrees; the grids are unit-spaced axis-aligned grids turned by  *)
(* a multiple of 90 degrees, for which arctan2, cos and sin are exact.     *)

QuarterTurns == 0..3
GridSizes == {1, 2}

\* the point <<x, y>> turned counter-clockwise by q quarter turns
Turn(q, p) ==
    CASE q = 0 -> p
      [] q = 1 -> <<-p[2], p[1]>>
      [] q = 2 -> <<-p[1], -p[2]>>
      [] OTHER -> <<p[2], -p[1]>>

\* xx and yy of a grid of rows x cols points: row r, column c of the
\* axis-aligned grid is the point <<c, r>>, turned by q quarter turns
SourceGrid(rows, cols, q) ==
    [ rows |-> rows, cols |-> cols,
      xx |-> [ rc \in (0..(rows - 1)) \X (0..(cols - 1)) |-> Turn(q, <<rc[2], rc[1]>>)[1] ],
      yy |-> [ rc \in (0..(rows - 1)) \X (0..(cols - 1)) |-> Turn(q, <<rc[2], rc[1]>>)[2] ] ]

\* np.arctan2(y, x) in degrees, for a vector along an axis; arctan2(0, 0) is 0
Atan2Deg(y, x) ==
    CASE y = 0 /\ x >= 0 -> 0
      [] y = 0 /\ x < 0 -> 180
      [] x = 0 /\ y > 0 -> 90
      [] x = 0 /\ y < 0 -> -90

CosDeg(a) == CASE a % 360 = 0 -> 1 [] a % 360 = 180 -> -1 [] OTHER -> 0
SinDeg(a) == CASE a % 360 = 90 -> 1 [] a % 360 = 270 -> -1 [] OTHER -> 0

\* utils.py:80-90, the rotation angle from the first-row and first-column
\* edge vectors
GridAngle(xx, yy, rows, cols) ==
    LET dx1 == xx[<<0, cols - 1>>] - xx[<<0, 0>>]
        dy1 == yy[<<0, cols - 1>>] - yy[<<0, 0>>]
        dx2 == xx[<<rows - 1, 0>>] - xx[<<0, 0>>]
        dy2 == yy[<<rows - 1, 0>>] - yy[<<0, 0>>]
    IN  IF dx1 * dx1 + dy1 * dy1 > dx2 * dx2 + dy2 * dy2
          THEN Atan2Deg(dy1, dx1)
          ELSE Atan2Deg(dx2, dy2) - 90

\* utils.py:92-118.  The mesh is kept in integers: every coordinate of the
\* result (points and box) is multiplied by scale = 2 * (nx-1) * (ny-1),
\* a factor 1 standing for nx-1 or ny-1 when it is 0.  np.linspace(-w/2,
\* w/2, nx) is -w/2 + i*w/(nx-1) for i in 0..nx-1, and -w/2 alone for nx = 1.
RotatedMesh(grid, grid_size) ==
    LET xs == { grid.xx[rc] : rc \in DOMAIN grid.xx }
        ys == { grid.yy[rc] : rc \in DOMAIN grid.yy }
        x_min == MinOf(xs)
        x_max == MaxOf(xs)
        y_min == MinOf(ys)
        y_max == MaxOf(ys)
        width == x_max - x_min
        height == y_max - y_min
        nx == (width \div grid_size) + 1
        ny == (height \div grid_size) + 1
        dnx == IF nx > 1 THEN nx - 1 ELSE 1
        dny == IF ny > 1 THEN ny - 1 ELSE 1
        scale == 2 * dnx * dny
        angle == GridAngle(grid.xx, grid.yy, grid.rows, grid.cols)
        x_local(i) == width * (2 * i - dnx) * dny
        y_local(j) == height * (2 * j - dny) * dnx
        x_center == (x_min + x_max) * dnx * dny
        y_center == (y_min + y_max) * dnx * dny
    IN  [ err |-> NoError,
          angle |-> angle,
          scale |-> scale,
          box |-> [x_min |-> x_min, x_max |-> x_max, y_min |-> y_min, y_max |-> y_max],
          mesh |-> { << CosDeg(angle) * x_local(i) - SinDeg(angle) * y_local(j) + x_center,
                        SinDeg(angle) * x_local(i) + CosDeg(angle) * y_local(j) + y_center >> :
                     i \in 0..(nx - 1), j \in 0..(ny - 1) } ]

\* a direct call calculate_grid_angle_and_create_rotated_mesh(xx, yy, grid_size)
MeshCall ==
    /\ pc = "calculate_grid_angle_and_create_rotated_mesh"
    /\ \E rows \in 1..MaxMeshRows, cols \in 1..MaxMeshCols, q \in QuarterTurns,
          grid_size \in GridSizes :
        LET result == RotatedMesh(SourceGrid(rows, cols, q), grid_size) IN
        /\ loc' = [loc EXCEPT !.args = [rows |-> rows, cols |-> cols, q |-> q,
                                         grid_size |-> grid_size],
                              !.ret = result]
        /\ IF result.err.type # "none"
             THEN pc' = AfterRaise /\ err' = result.err
             ELSE Goto("done")
    /\ UNCHANGED <<entry, info, env, eff>>

-----------------------------------------------------------------------------
(* One unit of the mask loop of binary_matrix, raster.py:319-329, taken on  *)
(* its own: the surface Z of the unit, the level it is compared with, and  *)
(* the mask that is stored.                                                 *)

\* raster.py:319-323, the surfaces a unit can have: the raw grid, or with
\* refinement the interpolated one, NaN outside the hull of the band points
Surfaces(refine) == [Cells -> IF refine THEN ElevVals \cup {NaN} ELSE ElevVals]

\* raster.py:326 and 329, the array stored: one boolean per cell
MaskArray(Z, level) == [c \in Cells |-> c \in Mask(Z, level)]

MaskUnit ==
    /\ pc = "mask_unit"
    /\ \E refine \in BOOLEAN, level \in LevelVals :
         \E Z \in Surfaces(refine) :
          loc' = [loc EXCEPT !.args = [refinement |-> refine, Z |-> Z, level |-> level],
                             !.ret = MaskArray(Z, level)]
    /\ Goto("done")
    /\ UNCHANGED <<entry, info, env, eff>>

Next ==
    \/ CheckIndexPresent
    \/ CheckIndexIsList
    \/ CheckIndexValues
    \/ CheckInputDtm
    \/ InitDtmFilenames
    \/ CheckSimDir
    \/ DefaultSeasons
    \/ CreateAuxiliaryFolders
    \/ CheckDates
    \/ CheckHorizonTimes
    \/ CheckReturnPeriods
    \/ CheckMeshSize
    \/ MainLoop
    \/ BmInitialDem
    \/ BmRefinementBand
    \/ BmSelectLevel
    \/ BmReadLevels
    \/ BmDateMask
    \/ BmReturnPeriodMask
    \/ BmSave
    \/ SaveCall
    \/ BandCall
    \/ MeshCall
    \/ MaskUnit

Spec == Init /\ [][Next]_vars

-----------------------------------------------------------------------------
(* Where a run stands *)

BmPcs == {"bm_start", "bm_refine", "bm_sim", "bm_levels", "bm_date", "bm_rp", "bm_save"}

\* check_inputs raised: main has been left with its exception
CheckRaised == pc = "raised" /\ err.fn = "check_inputs"

\* check_inputs returned to main
CheckReturned ==
    /\ entry = "main"
    /\ \/ pc \in BmPcs \cup {"main_loop", "done"}
       \/ pc = "raised" /\ err.fn # "check_inputs"

\* the date-equality loop of check_inputs (raster.py:144-164) is behind
DatesChecked ==
    /\ entry = "main"
    /\ \/ pc \in {"ci_horizon", "ci_rp", "ci_mesh"}
       \/ CheckReturned
       \/ CheckRaised /\ err.line > 164

RunEnded == pc \in {"done", "raised"}

\* the simulations whose level series has been read, and its date index
LevelsRead == { s \in Sims : env.levels[s].st = "read" /\ env.levels[s].rows > 0 }
DatesOf(s) == DateIndex(env.levels[s].rows)

ProjectSims == Range(info.proj_no_sims.v)

HasInvalidIndex ==
    /\ info.index.st \in {"str", "list"}
    /\ \E i \in 1..Len(info.index.v) : info.index.v[i] \notin Whitelist

\* the dates validation recorded, none when it recorded none
ValidatedDates == IF info.dates.st = "set" THEN Range(info.dates.v) ELSE {}

-----------------------------------------------------------------------------
(* Claims *)

\* C1: in a run of main, as soon as two simulations' level series have
\* different date indices check_inputs has raised, with binary_matrix not
\* entered and no mask computed; the mismatch error of line 162 is raised
\* only for a real mismatch; and once the date loop is behind, every
\* simulation of the run has the date index validation recorded.
C1_DateGate ==
    entry = "main" =>
      /\ (\E a, b \in LevelsRead : DatesOf(a) # DatesOf(b)) =>
            /\ CheckRaised
            /\ loc.calls = 0
            /\ loc.bm.bin_mask = {}
      /\ (CheckRaised /\ err.line = 162) =>
            \E a, b \in LevelsRead : DatesOf(a) # DatesOf(b)
      /\ DatesChecked =>
            \A s \in ProjectSims : s \in LevelsRead /\ DatesOf(s) = info.dates.v

C1_Witness ==
    /\ entry = "main" /\ CheckRaised /\ err.line = 162
    /\ \E a, b \in LevelsRead : DatesOf(a) # DatesOf(b)

\* C2: a configuration with an index name outside the 22-name whitelist gets
\* no further than the whitelist check, which raises ValueError, and at that
\* point no path has been tested, no file read and no directory created.
C2_WhitelistBeforeIO ==
    /\ Cardinality(Whitelist) = 22
    /\ (entry = "main" /\ HasInvalidIndex) =>
          /\ pc \in {"ci_norm", "ci_whitelist", "raised"}
          /\ pc = "raised" => err = Error("ValueError", "check_inputs", 92)
          /\ eff.tested = {} /\ eff.read = {} /\ eff.created = {}
          /\ eff.loaded = 0 /\ eff.written = <<>>

C2_Witness ==
    /\ entry = "main" /\ HasInvalidIndex
    /\ err = Error("ValueError", "check_inputs", 92)

\* C3: in main, an exception of check_inputs ends the run: binary_matrix is
\* never entered, so it loads no DTM, computes no mask and writes no file.
\* (The raster check_inputs itself reads for its mesh advisory, line 185, is
\* not a load of binary_matrix.)
C3_FailFast ==
    (entry = "main" /\ err.fn = "check_inputs") =>
      /\ pc = "raised"
      /\ loc.calls = 0
      /\ eff.loaded = 0
      /\ loc.bm.bin_mask = {}
      /\ eff.written = <<>>

C3_Witness ==
    /\ entry = "main" /\ CheckRaised
    /\ eff.created # {} /\ eff.read # {}

\* C4 (as claimed): a run of main with index "flooded_area" does not end in
\* an exception, and when it has ended every simulation holds a mask for
\* every date.
C4_FloodedAreaRunCompletes ==
    (entry = "main" /\ info.index.st \in {"str", "list"}
       /\ info.index.v = <<"flooded_area">>) =>
      /\ pc # "raised"
      /\ pc = "done" =>
            \A s \in ProjectSims : \A d \in ValidatedDates :
               \E m \in loc.bm.bin_mask : m[1] = s /\ m[2] = d

\* C5: in a run of main, a configuration whose return_periods holds a value
\* <= 0 never gets past the return-period check: check_inputs has raised
\* ValueError.
C5_ReturnPeriodsPositive ==
    (entry = "main" /\ info.return_periods.st = "set"
       /\ \E i \in 1..Len(info.return_periods.v) : info.return_periods.v[i] <= 0) =>
      /\ CheckRaised
      /\ err.type = "ValueError"

C5_Witness ==
    /\ entry = "main" /\ CheckRaised /\ err.line = 182
    /\ \E i \in 1..Len(info.return_periods.v) : info.return_periods.v[i] <= 0

\* C6: in a run of main with horizon_times configured, check_inputs has
\* raised if some horizon time is not among the dates validation recorded,
\* and the horizon check (lines 169-175) raises only in that case.
C6_HorizonTimesInDates ==
    (entry = "main" /\ info.horizon_times.st = "set") =>
      /\ (\E i \in 1..Len(info.horizon_times.v) :
             info.horizon_times.v[i] \notin ValidatedDates) => CheckRaised
      /\ (CheckRaised /\ err.line \in 169..175) =>
            \E i \in 1..Len(info.horizon_times.v) :
               info.horizon_times.v[i] \notin ValidatedDates

C6_Witness ==
    /\ entry = "main" /\ CheckRaised /\ err.line = 173
    /\ info.dates.st = "set"

C6_WitnessPass ==
    /\ entry = "main" /\ pc = "ci_rp" /\ info.horizon_times.st = "set"
    /\ Len(info.horizon_times.v) > 0

\* C7 (as claimed): once check_inputs has returned, every simulation id
\* 1..no_sims has a directory that was found to exist and a non-empty list
\* of raster files in the configuration.
C7_SimulationDirsValidated ==
    CheckReturned =>
      \A sim \in 1..info.no_sims.v :
         /\ env.dirs[sim] = "exists"
         /\ sim < Len(info.dtm_filenames.v)
         /\ info.dtm_filenames.v[sim + 1] > 0

\* every unit of simulation s has its mask: every date in date mode, every
\* (return_period, horizon_time) pair in return-period mode
AllUnitsMasked(s) ==
    IF loc.bm.date_loop
      THEN /\ info.dates.st = "set"
           /\ \A i \in 1..Len(info.dates.v) :
                 \E m \in loc.bm.bin_mask : m[1] = s /\ m[2] = info.dates.v[i]
      ELSE /\ info.return_periods.st = "set"
           /\ \/ Len(info.return_periods.v) = 0
              \/ /\ info.horizon_times.st = "set"
                 /\ loc.bm.unit > Len(info.return_periods.v) * Len(info.horizon_times.v)

C8_SerializerCalled ==
    /\ entry = "binary_matrix"
    /\ \E s \in Sims : loc.bm.saves[s] = 1

\* C9 (as claimed): a run of main that passed validation ends with exactly
\* one file written per (simulation, index) pair, named
\* <index>_sim_<simulation id on 2 digits>.nc.
C9_OneFilePerPair ==
    (CheckReturned /\ RunEnded /\ info.proj_no_sims.st = "set") =>
      /\ { eff.written[i].name : i \in 1..Len(eff.written) } =
            { OutputFilename(info.index.v[i], sim) :
                 i \in 1..Len(info.index.v), sim \in ProjectSims }
      /\ Len(eff.written) = Len(info.index.v) * Cardinality(ProjectSims)

\* C10 (as claimed): a call of save_matrix_to_netcdf ends with one file
\* written, and reading it back gives the masks, the time axis and the
\* zero-padded simulation id that were passed.
C10_RoundTrip ==
    (entry = "save_matrix_to_netcdf" /\ pc # "save") =>
      /\ pc = "done"
      /\ Len(eff.written) = 1
      /\ FromNetcdf(eff.written[1].file).prob = MasksOf(loc.bm.sim_no)
      /\ FromNetcdf(eff.written[1].file).time = info.dates.v
      /\ FromNetcdf(eff.written[1].file).sim = ZFill(Str(loc.bm.sim_no), 2)

\* C17 (as claimed): the mesh-size check of check_inputs never raises: in a
\* run of main no exception of check_inputs comes from lines 184-200.
C17_MeshCheckNeverRaises ==
    entry = "main" => ~(CheckRaised /\ err.line >= 184)

\* C18 (as claimed): check_inputs leaves the configuration passed by the
\* caller unchanged: in a run of main the caller's info never holds a key
\* the caller did not supply (dtm_filenames, auxiliary_folders, dates, the
\* default seasons), whether validation succeeds or raises.
C18_CallerConfigUnchanged ==
    entry = "main" =>
      /\ info.dtm_filenames.st = "absent"
      /\ info.auxiliary_folders.st = "absent"
      /\ info.dates.st = "absent"
      /\ info.seasons # "default"

\* the order of checks the claim C20 states, by step of check_inputs
ClaimedOrder ==
    << "ci_index", "ci_norm", "ci_whitelist", "ci_dtm", "ci_simdirs", "ci_simdir",
       "ci_seasons", "ci_aux", "ci_dates", "ci_horizon", "ci_rp", "ci_mesh" >>

ClaimedPosition(step) == CHOOSE i \in 1..Len(ClaimedOrder) : ClaimedOrder[i] = step

\* the step of check_inputs a raising line belongs to
StepOfLine(line) ==
    CASE line <= 77 -> "ci_index"
      [] line <= 81 -> "ci_norm"
      [] line <= 92 -> "ci_whitelist"
      [] line <= 99 -> "ci_dtm"
      [] line <= 102 -> "ci_simdirs"
      [] line <= 118 -> "ci_simdir"
      [] line <= 126 -> "ci_seasons"
      [] line <= 141 -> "ci_aux"
      [] line <= 164 -> "ci_dates"
      [] line <= 175 -> "ci_horizon"
      [] line <= 182 -> "ci_rp"
      [] OTHER -> "ci_mesh"

InCheckInputs == entry = "main" /\ pc \in Range(ClaimedOrder)

\* check_inputs is under way or has raised, and has not begun the step
NotStarted(step) ==
    \/ InCheckInputs /\ ClaimedPosition(pc) < ClaimedPosition(step)
    \/ entry = "main" /\ CheckRaised
          /\ ClaimedPosition(StepOfLine(err.line)) < ClaimedPosition(step)

\* check_inputs has left the step behind without raising in it
Passed(step) ==
    \/ InCheckInputs /\ ClaimedPosition(pc) > ClaimedPosition(step)
    \/ entry = "main" /\ CheckRaised
          /\ ClaimedPosition(StepOfLine(err.line)) > ClaimedPosition(step)
    \/ CheckReturned

BandReturned == entry = "band" /\ pc = "done"

\* row i (column i) of the grid has a cell strictly inside the level interval
RowInInterval(i) ==
    \E c \in 1..GridCols :
       /\ loc.args.z[<<i, c>>] > Min2(loc.args.levels)
       /\ loc.args.z[<<i, c>>] < Max2(loc.args.levels)
ColInInterval(i) ==
    \E r \in 1..GridRows :
       /\ loc.args.z[<<r, i>>] > Min2(loc.args.levels)
       /\ loc.args.z[<<r, i>>] < Max2(loc.args.levels)

\* C11: the mask band returns with orientation "WE" holds every cell of a
\* row that has a cell strictly inside the level interval and no cell of any
\* other row; with orientation "NS" the same holds column by column.
C11_BandContiguity ==
    BandReturned =>
      /\ loc.args.orientation_ = "WE" =>
            \A i \in 1..GridRows : \A c \in 1..GridCols :
               <<i, c>> \in loc.ret.band_ <=> RowInInterval(i)
      /\ loc.args.orientation_ = "NS" =>
            \A i \in 1..GridCols : \A r \in 1..GridRows :
               <<r, i>> \in loc.ret.band_ <=> ColInInterval(i)

\* a WE band with one row taken whole for a single inside cell and another
\* row left out
C11_Witness ==
    /\ BandReturned /\ loc.args.orientation_ = "WE"
    /\ \E i, j \in 1..GridRows :
          /\ RowInInterval(i) /\ ~RowInInterval(j)
          /\ \E c \in 1..GridCols : loc.args.z[<<i, c>>] = 0
          /\ \A c \in 1..GridCols : <<i, c>> \in loc.ret.band_

MeshEnded ==
    /\ entry = "calculate_grid_angle_and_create_rotated_mesh"
    /\ pc \in {"done", "raised"}

MeshReturned ==
    /\ entry = "calculate_grid_angle_and_create_rotated_mesh"
    /\ pc = "done"

\* C12 (as claimed): for a grid that is an axis-aligned regular grid turned
\* by an angle, with its corners not all the same point, the angle returned
\* is that angle up to a full turn, whichever edge is the longer one.
C12_AngleRecovered ==
    (MeshEnded /\ (loc.args.rows > 1 \/ loc.args.cols > 1)) =>
      /\ pc = "done"
      /\ (loc.ret.angle - 90 * loc.args.q) % 360 = 0

\* C14 (as claimed): for a grid whose corner points all coincide the
\* function ends with an error, not with an angle and a mesh.
C14_DegenerateGridFails ==
    (MeshEnded /\ loc.args.rows = 1 /\ loc.args.cols = 1) => pc = "raised"

\* C19 (as claimed): every point of the mesh returned lies inside the
\* bounding box [min(xx), max(xx)] x [min(yy), max(yy)] of the input.
C19_MeshInsideBox ==
    MeshReturned =>
      \A p \in loc.ret.mesh :
         /\ loc.ret.box.x_min * loc.ret.scale <= p[1]
         /\ p[1] <= loc.ret.box.x_max * loc.ret.scale
         /\ loc.ret.box.y_min * loc.ret.scale <= p[2]
         /\ p[2] <= loc.ret.box.y_max * loc.ret.scale

RefinementRaised ==
    /\ entry \in {"main", "binary_matrix"} /\ pc = "raised"
    /\ \/ err.fn = "band" /\ err.line \in {185, 188}
       \/ err.fn = "calculate_grid_angle_and_create_rotated_mesh"

\* no cell of the grid band was applied to lies strictly inside the levels
NoCellInInterval ==
    \A p \in GridCells :
       ~(loc.args.z[p] > Min2(loc.args.levels) /\ loc.args.z[p] < Max2(loc.args.levels))

\* C13: in binary_matrix the refinement path goes on only with a band whose
\* mask is not empty; a band call on a grid with no cell strictly inside
\* the level interval has raised (in band, WE and NS), and binary_matrix
\* holds no mask and has written no file in that call.
C13_EmptyBandFails ==
    entry \in {"main", "binary_matrix"} =>
      /\ loc.bm.coords = "band" => loc.bm.band_ # {}
      /\ (pc = "raised" /\ err.fn = "band" /\ err.line \in {185, 188}) =>
            /\ NoCellInInterval
            /\ loc.bm.bin_mask = {}
            /\ \A i \in 1..Len(eff.written) : eff.written[i].call # loc.calls
      /\ (RefinementRaised /\ NoCellInInterval) =>
            loc.bm.coords = "unbound" /\ loc.bm.bin_mask = {}

C13_Witness ==
    /\ entry = "binary_matrix" /\ pc = "raised"
    /\ err = Error("ValueError", "band", 188)
    /\ NoCellInInterval
    /\ loc.bm.coords = "unbound"

\* the refinement path going on, with a band that is not empty
C13_BandBound ==
    /\ entry = "binary_matrix" /\ pc = "bm_sim"
    /\ loc.bm.coords = "band" /\ loc.bm.band_ # {}

\* binary_matrix is in return-period mode with both lists looked up
ReturnPeriodMode ==
    /\ entry \in {"main", "binary_matrix"}
    /\ ~loc.bm.date_loop
    /\ info.return_periods.st = "set" /\ info.horizon_times.st = "set"

\* C16 (as claimed): in return-period/horizon mode, once the level of a
\* (return_period, horizon_time) pair has been read, computing and storing
\* its mask (lines 340-359) does not raise, and when the loops are over the simulation's cube holds one mask per pair,
\* each in a slot of its own.
C16_OneMaskPerPair ==
    ReturnPeriodMode =>
      /\ ~(pc = "raised" /\ err.fn = "binary_matrix" /\ err.line \in 340..359)
      /\ pc = "bm_save" =>
            Cardinality({ m \in loc.bm.bin_mask : m[1] = loc.bm.sim_no }) =
               Len(info.return_periods.v) * Len(info.horizon_times.v)

\* a run of main with refinement enabled has called band (raster.py:275):
\* the keys of lines 270-275 were there and the initial raster was read
BandCalledInMain ==
    /\ entry = "main" /\ loc.calls >= 1
    /\ info.refinement = Set(TRUE)
    /\ pc \notin {"bm_start", "bm_refine"}
    /\ ~(pc = "raised" /\ err.fn = "binary_matrix" /\ err.line <= 275)

\* C21 (as claimed): during one run of main the band and the refined mesh
\* are each built at most once, and once band has been called on a grid
\* with a cell inside the levels the band has been built, exactly once.
C21_BandAndMeshBuiltOnce ==
    entry = "main" =>
      /\ loc.band_builds <= 1 /\ loc.mesh_builds <= 1
      /\ BandCalledInMain =>
            \/ pc = "raised" /\ err.fn = "band" /\ err.line \in {185, 188}
            \/ loc.band_builds = 1

\* binary_matrix has taken the level of a (return_period, horizon_time) pair
\* from the table (raster.py:340)
PairLevelTaken ==
    /\ ReturnPeriodMode
    /\ loc.bm.level.bound
    /\ \/ pc = "raised" /\ err.fn = "binary_matrix" /\ err.line \in 340..359
       \/ pc \in {"bm_rp", "bm_save"} /\ loc.bm.unit > 1

\* C22 (as claimed): in return-period/horizon mode the level of a pair is
\* the maximum of the return period's column over the year offsets 0 to
\* horizon_time - year_ini, and with that level taken the pair's mask
\* Z < level is computed from the raster of the horizon time and stored:
\* the step does not raise.
C22_PairLevelAndMask ==
    PairLevelTaken =>
      /\ \A i \in 0..(MaxYears - 1) :
            i <= loc.args.horizon_time - loc.args.year_ini =>
               loc.args.column[i] <= loc.bm.level.v
      /\ pc # "raised"
      /\ \E m \in loc.bm.bin_mask : m[1] = loc.bm.sim_no

\* C30: the level of a return period is non-decreasing in the horizon time:
\* for the column a pair's level was taken from and horizon times
\* h1 <= h2 at or after year_ini, level(h1) <= level(h2); the level taken is
\* the one of the pair's horizon time.
C30_LevelMonotone ==
    PairLevelTaken =>
      /\ loc.bm.level.v = ReturnPeriodLevel(loc.args.column, loc.args.horizon_time,
                                            loc.args.year_ini)
      /\ \A h1, h2 \in loc.args.year_ini..(loc.args.year_ini + MaxYears) :
            h1 <= h2 =>
               ReturnPeriodLevel(loc.args.column, h1, loc.args.year_ini)
                  <= ReturnPeriodLevel(loc.args.column, h2, loc.args.year_ini)

\* a level taken at a later horizon from a column that goes down after its
\* first year: the maximum is the earlier, higher value
C30_Witness ==
    /\ PairLevelTaken
    /\ loc.args.horizon_time - loc.args.year_ini >= 1
    /\ loc.args.column[0] = 2 /\ loc.args.column[1] = 0
    /\ loc.bm.level.v = 2

BandEnded == entry = "band" /\ pc \in {"done", "raised"}

\* the elevation of the cell equals a bound of the level interval
AtBound(p) ==
    \/ loc.args.z[p] = Min2(loc.args.levels)
    \/ loc.args.z[p] = Max2(loc.args.levels)

\* C23: in band a cell is in the initial mask z_ exactly when
\* min(levels) < z < max(levels), both strict: a cell at a bound is not in
\* it, and a row (WE) or column (NS) whose only candidates are cells at a
\* bound is not in the mask returned.
C23_StrictInterval ==
    BandEnded =>
      /\ \A p \in GridCells :
            loc.ret.z_[p] = 1 <=>
               (Min2(loc.args.levels) < loc.args.z[p] /\ loc.args.z[p] < Max2(loc.args.levels))
      /\ \A p \in GridCells : AtBound(p) => loc.ret.z_[p] = 0
      /\ (pc = "done" /\ loc.args.orientation_ = "WE") =>
            \A i \in 1..GridRows :
               (\A c \in 1..GridCols : loc.ret.z_[<<i, c>>] = 0) =>
                  \A c \in 1..GridCols : <<i, c>> \notin loc.ret.band_
      /\ (pc = "done" /\ loc.args.orientation_ = "NS") =>
            \A i \in 1..GridCols :
               (\A r \in 1..GridRows : loc.ret.z_[<<r, i>>] = 0) =>
                  \A r \in 1..GridRows : <<r, i>> \notin loc.ret.band_

\* a column of cells at the lower bound left out of a NS band that takes
\* another column
C23_Witness ==
    /\ entry = "band" /\ pc = "done" /\ loc.args.orientation_ = "NS"
    /\ loc.args.levels = <<0, 2>>
    /\ \E i, j \in 1..GridCols :
          /\ \A r \in 1..GridRows : AtBound(<<r, i>>) /\ <<r, i>> \notin loc.ret.band_
          /\ \A r \in 1..GridRows : <<r, j>> \in loc.ret.band_

\* the rows (WE) or columns (NS) band included, in increasing order
IncludedLines ==
    IF loc.args.orientation_ = "WE"
      THEN { i \in 1..GridRows : \E c \in 1..GridCols : <<i, c>> \in loc.ret.band_ }
      ELSE { i \in 1..GridCols : \E r \in 1..GridRows : <<r, i>> \in loc.ret.band_ }

\* the k-th included line, and its j-th cell
IncludedLine(k) ==
    CHOOSE i \in IncludedLines : Cardinality({ l \in IncludedLines : l <= i }) = k
CellOfLine(k, j) ==
    IF loc.args.orientation_ = "WE" THEN <<IncludedLine(k), j>> ELSE <<j, IncludedLine(k)>>

LineLength == IF loc.args.orientation_ = "WE" THEN GridCols ELSE GridRows

\* C24 (as claimed): for WE and for NS the coordinate arrays band returns
\* have shape (number of included lines, line length), and entry [k, j] is
\* the coordinate of the j-th cell of the k-th included line.
C24_CoordsByLine ==
    (BandReturned /\ loc.args.orientation_ \in {"WE", "NS"}) =>
      /\ loc.ret.shape = <<Cardinality(IncludedLines), LineLength>>
      /\ \A k \in 1..Cardinality(IncludedLines) : \A j \in 1..LineLength :
            loc.ret.coords[<<k, j>>] = CellOfLine(k, j)

\* C25 (as claimed): whenever binary_matrix gets to hand a simulation's
\* cube to save_matrix_to_netcdf, with refinement enabled or disabled, it
\* has coordinates of the analysis grid to hand over: the evaluation of the
\* call's arguments does not fail on coords, and a call made carries the
\* coordinates of the band's mesh when refinement is enabled.
C25_CoordinatesOfAnalysisGrid ==
    entry \in {"main", "binary_matrix"} =>
      /\ ~(pc = "raised" /\ err = Error("UnboundLocalError", "binary_matrix", 368))
      /\ \A s \in Sims :
            loc.bm.saves[s] >= 1 =>
               /\ loc.bm.coords # "unbound"
               /\ info.refinement = Set(TRUE) => loc.bm.coords = "band"

C27_LevelAssigned ==
    entry = "main" =>
      /\ pc \in {"bm_levels", "bm_date"} => loc.bm.level.bound
      /\ ~(pc = "raised" /\ err = Error("UnboundLocalError", "binary_matrix", 326))

\* the simulations whose directory check_inputs has tested (raster.py:103-104)
DirsValidated == { s \in Sims : SimDirPath(s) \in eff.tested }

\* the simulations whose level series has been opened (raster.py:146)
LevelsValidated == { s \in Sims : env.levels[s].st # "unread" }

\* C28 (as claimed): once check_inputs has returned, the simulations whose
\* directory it validated, those whose level series it validated and those
\* binary_matrix iterates over (info["project"]["no_sims"]) are one set.
C28_SameSimulationSet ==
    CheckReturned =>
      /\ DirsValidated = ProjectSims
      /\ LevelsValidated = ProjectSims

\* the level-series half of C28 on its own
C28_LevelsMatchProcessed == CheckReturned => LevelsValidated = ProjectSims

\* C29 (as claimed): once check_inputs has returned, every simulation of
\* the run has a raster list with an entry for each validated date, and the
\* positional lookup of binary_matrix's date loop (raster.py:315) does not
\* fall outside it.
C29_FilePerSimulationDate ==
    CheckReturned =>
      /\ \A s \in ProjectSims : \A k \in 1..Len(info.dates.v) :
            /\ s < Len(info.dtm_filenames.v)
            /\ info.dtm_filenames.v[s + 1] >= k
      /\ ~(pc = "raised" /\ err.fn = "binary_matrix" /\ err.line = 315)

=============================================================================
